---- MODULE Spec2Model ----
(***************************************************************************)
(* Verification model of the bybit-signal-bot back-testing programs.       *)
(*                                                                         *)
(*   SpecFS, SpecFSLong  scripts/run_backtest_from_signals.py (main)       *)
(*   SpecRB              scripts/backtest_rr.py (run_backtest)             *)
(*   SpecDS              src/workers/signal_engine.py (detect_signal)      *)
(*   SpecBS              scripts/backtest.py (backtest_single), run twice  *)
(*   SpecCI              src/utils/indicators.py (compute_indicators)      *)
(*   SpecDP              src/workers/signal_engine.py, three calls in a row *)
(*   SpecNP              scripts/backtest.py (naive_pnl_from_signals)      *)
(*   SpecFO, SpecFOLive  src/utils/historical.py (fetch_full_ohlcv)        *)
(*                                                                         *)
(* Prices are points of an integer grid, timestamps are the 1-based        *)
(* positions of the bars (strictly increasing, unique), and quotients of   *)
(* prices are kept as exact fractions <<numerator, denominator>>: Python   *)
(* float rounding is not modelled.                                         *)
(***************************************************************************)
EXTENDS Integers, Sequences, FiniteSets, TLC

VARIABLES
  bars,        \* the OHLCV table: sequence of [high, low, close]
  sig_df,      \* the signal table read by main(): rows in file order
  fs_pc,       \* main(): "loop" | "done"
  fs_k,        \* main(): number of signal rows consumed by the for loop
  trades,      \* main(): the trade log
  balance,     \* main(): running balance, a fraction
  equity,      \* main(): the equity curve
  summary,     \* main(): the summary written at the end
  rb_pc,       \* run_backtest: "start" | "loop" | "raised" | "done"
  rb_sl_pct,   \* run_backtest: argument sl_pct (<<>> is None)
  rb_rr,       \* run_backtest: argument rr (<<>> is None)
  rb_i,        \* run_backtest: the walk-forward cursor i (0-based)
  rb_trades,   \* run_backtest: the list trades
  rb_signals,  \* run_backtest: the list signals
  rb_summary,  \* run_backtest: the summary written at the end
  ds_pc,       \* detect_signal: "call" | "returned"
  ds_call,     \* detect_signal: the arguments of the call
  ds_result,   \* detect_signal: the value returned
  bs_cfg,      \* backtest_single: rsi_period, window_min, ema spans
  bs_df,       \* backtest_single: the closes of the table, per run
  bs_pc,       \* backtest_single: "load" | "loop" | "done", per run
  bs_i,        \* backtest_single: the loop index i (0-based), per run
  bs_results,  \* backtest_single: the list results, per run
  ci_pc,       \* compute_indicators: "full" | "walk"
  ci_call,     \* compute_indicators: the series and the parameters
  ci_full,     \* compute_indicators: the table computed from the full series
  ci_i,        \* compute_indicators: the index of the next prefix (0-based)
  ci_rows,     \* compute_indicators: last row of the table of each prefix
  dp_calls,    \* detect_signal called repeatedly: the calls, in order
  dp_results,  \* detect_signal called repeatedly: the results so far
  dp_store,    \* detect_signal called repeatedly: the signal store (Storage)
  np_sig,      \* naive_pnl_from_signals: the argument sig_df, rows in table order
  np_pc,       \* naive_pnl_from_signals: "group" | "iter" | "done"
  np_todo,     \* naive_pnl_from_signals: the groups not yet iterated, in key order
  np_symbol,   \* naive_pnl_from_signals: the loop variable symbol
  np_g,        \* naive_pnl_from_signals: the sorted group g of each symbol
  np_k,        \* naive_pnl_from_signals: position of the next row of g (1-based)
  np_pos,      \* naive_pnl_from_signals: pos (<<>> is None)
  np_rows,     \* naive_pnl_from_signals: the list rows
  fo_market,   \* fetch_full_ohlcv: timestamps of the bars the exchange holds
  fo_limit,    \* fetch_full_ohlcv: limit_per_call
  fo_now,      \* fetch_full_ohlcv: now_ms
  fo_pc,       \* fetch_full_ohlcv: "loop" | "done"
  fo_since,    \* fetch_full_ohlcv: the page cursor fetch_since
  fo_rows,     \* fetch_full_ohlcv: all_rows, the timestamps collected
  fo_errors,   \* fetch_full_ohlcv: number of "Error fetching" lines printed
  fo_df        \* fetch_full_ohlcv: the timestamps of the table returned

fsVars == <<sig_df, fs_pc, fs_k, trades, balance, equity, summary>>
rbVars == <<rb_pc, rb_sl_pct, rb_rr, rb_i, rb_trades, rb_signals, rb_summary>>
dsVars == <<ds_pc, ds_call, ds_result>>
bsVars == <<bs_cfg, bs_df, bs_pc, bs_i, bs_results>>
ciVars == <<ci_pc, ci_call, ci_full, ci_i, ci_rows>>
dpVars == <<dp_calls, dp_results, dp_store>>
npVars == <<np_sig, np_pc, np_todo, np_symbol, np_g, np_k, np_pos, np_rows>>
foVars == <<fo_market, fo_limit, fo_now, fo_pc, fo_since, fo_rows, fo_errors, fo_df>>
vars == <<bars, fsVars, rbVars, dsVars, bsVars, ciVars, dpVars, npVars, foVars>>

-----------------------------------------------------------------------------
(* Bounds of the model *)
MaxBars == 2
MaxBarsLong == 3
MaxSigs == 2
MaxPrice == 3

(* Program constants *)
None == 0
InitialBalance == 10000

Prices == 1..MaxPrice
Sides == {"BUY", "SELL"}

-----------------------------------------------------------------------------
(* Exact fractions *)
Frac(n, d) == <<n, d>>
FMul(a, b) == <<a[1] * b[1], a[2] * b[2]>>
FEq(a, b) == a[1] * b[2] = b[1] * a[2]
FOnePlus(a) == <<a[2] + a[1], a[2]>>

-----------------------------------------------------------------------------
(* Inputs *)

\* A bar of the table; low <= close <= high (well-formed input).
BarSet == {b \in [high : Prices, low : Prices, close : Prices] :
             b.low <= b.close /\ b.close <= b.high}

BarSeqs(maxLen) == UNION {[1..n -> BarSet] : n \in 0..maxLen}

\* A row of the signal table as generate_signal_history.py writes it: the
\* entry is the close of the bar, the stop lies `risk` grid steps against the
\* position and the take `risk` steps in its favour (FIXED_RR = 1.0; on the
\* integer grid `risk` stands for entry_price * SL_PCT).
SigRow(ts, side, price, risk) ==
  [entry_ts |-> ts, signal |-> side, entry_price |-> price,
   stop_price |-> IF side = "BUY" THEN price - risk ELSE price + risk,
   take_price |-> IF side = "BUY" THEN price + risk ELSE price - risk]

\* The stop distances of the rows of a table.
UnitRisk == {1}
RiskSteps == {1, 2}

\* The rows a table over `ohlcv` can hold: one per bar, side and stop
\* distance with both levels positive, and rows stamped after the last bar
\* of the table (a signal file made from a longer history).
SigRows(ohlcv, risks) ==
  {r \in {SigRow(ts, s, ohlcv[ts].close, d) :
             ts \in 1..Len(ohlcv), s \in Sides, d \in risks} :
     r.stop_price >= 1 /\ r.take_price >= 1}
  \cup {SigRow(Len(ohlcv) + 1, s, MaxPrice, 1) : s \in Sides}

\* Signal tables: at most one row per timestamp, in time order.
SigTables(ohlcv, risks) ==
  {t \in UNION {[1..m -> SigRows(ohlcv, risks)] : m \in 0..MaxSigs} :
     \A a, b \in 1..Len(t) : a < b => t[a].entry_ts < t[b].entry_ts}

-----------------------------------------------------------------------------
(* run_backtest_from_signals.py *)

\* The stop/take test of one bar of the window: stop first, then take.
BarHitTpFirst(row, side, stop_price, take_price) ==
  IF side = "BUY"
  THEN IF row.high >= take_price THEN "tp"
       ELSE IF row.low <= stop_price THEN "sl" ELSE "none"
  ELSE IF row.low <= take_price THEN "tp"
       ELSE IF row.high >= stop_price THEN "sl" ELSE "none"

BarHit(row, side, stop_price, take_price) ==
  IF side = "BUY"
  THEN IF row.low <= stop_price THEN "sl"
       ELSE IF row.high >= take_price THEN "tp" ELSE "none"
  ELSE IF row.high >= stop_price THEN "sl"
       ELSE IF row.low <= take_price THEN "tp" ELSE "none"

\* The timeout result: the last bar of the window and its close.
TimeoutExitFirstBar(ohlcv, entry_ts) ==
  [exit_ts |-> entry_ts, exit_price |-> ohlcv[entry_ts].close, reason |-> "timeout"]

TimeoutExit(ohlcv, entry_ts) ==
  [exit_ts |-> Len(ohlcv), exit_price |-> ohlcv[Len(ohlcv)].close, reason |-> "timeout"]

\* The for loop of find_exit over the window, from position ts on.
RECURSIVE ScanWindow(_, _, _, _, _, _)
ScanWindow(ohlcv, entry_ts, ts, side, stop_price, take_price) ==
  IF ts > Len(ohlcv) THEN TimeoutExit(ohlcv, entry_ts)
  ELSE LET hit == BarHit(ohlcv[ts], side, stop_price, take_price) IN
       IF hit = "sl"
       THEN [exit_ts |-> ts, exit_price |-> stop_price, reason |-> "sl"]
       ELSE IF hit = "tp"
       THEN [exit_ts |-> ts, exit_price |-> take_price, reason |-> "tp"]
       ELSE ScanWindow(ohlcv, entry_ts, ts + 1, side, stop_price, take_price)

\* First bar of the window ohlcv.loc[entry_ts:] (label slice, inclusive).
WindowStart(entry_ts) == entry_ts

find_exit(ohlcv, entry_ts, side, stop_price, take_price) ==
  IF entry_ts > Len(ohlcv)
  THEN [exit_ts |-> None, exit_price |-> None, reason |-> "no-data"]
  ELSE ScanWindow(ohlcv, entry_ts, WindowStart(entry_ts), side, stop_price, take_price)

\* The return of a trade, as a fraction.
TradeReturnLongOnly(side, entry_price, exit_price) ==
  Frac(exit_price - entry_price, entry_price)

TradeReturn(side, entry_price, exit_price) ==
  IF side = "BUY"
  THEN Frac(exit_price - entry_price, entry_price)
  ELSE Frac(entry_price - exit_price, exit_price)

\* Lines 87-90 divide by entry_price (BUY) or by exit_price (SELL).
\* entry_price, stop_price and take_price are Python floats (float(...) on
\* lines 75-78), and dividing by a Python float zero raises
\* ZeroDivisionError; the close of a timeout exit is a numpy float64, whose
\* division by zero gives inf or nan instead.
DivisionRaises(side, entry_price, x) ==
  /\ x.reason \in {"sl", "tp"}
  /\ IF side = "BUY" THEN entry_price = 0 ELSE x.exit_price = 0

\* trades_df["return"] > 0 and <= 0 (both false on nan).
IsWin(ret) == ret[1] > 0
IsLoss(ret) == ret[1] <= 0 /\ ~(ret[1] = 0 /\ ret[2] = 0)

\* The sum of the returns of the first n trades that are wins (wins = TRUE)
\* or losses (wins = FALSE).
RECURSIVE SumReturns(_, _, _)
SumReturns(log, n, wins) ==
  IF n = 0 THEN Frac(0, 1)
  ELSE LET ret == log[n].return
           rest == SumReturns(log, n - 1, wins)
       IN IF (wins /\ IsWin(ret)) \/ (~wins /\ IsLoss(ret))
          THEN <<rest[1] * ret[2] + ret[1] * rest[2], rest[2] * ret[2]>>
          ELSE rest

Abs(x) == <<(IF x[1] < 0 THEN 0 - x[1] ELSE x[1]), x[2]>>

\* Line 115: wins.sum() / (abs(losses.sum()) + 1e-12), always a number. It
\* is kept as its two sums; `plus` is the constant added to the divisor.
ProfitFactor(log) ==
  <<[gross_win |-> SumReturns(log, Len(log), TRUE),
     gross_loss |-> Abs(SumReturns(log, Len(log), FALSE)),
     plus |-> "1e-12"]>>

\* balance = balance * (1.0 + ret)
ApplyReturnAdditive(bal, ret) ==
  <<bal[1] * ret[2] + InitialBalance * ret[1] * bal[2], bal[2] * ret[2]>>

ApplyReturn(bal, ret) == FMul(bal, FOnePlus(ret))

\* The variables of a program that is not run.
IdleFS ==
  /\ sig_df = <<>>
  /\ fs_pc = "idle"
  /\ fs_k = 0
  /\ trades = <<>>
  /\ balance = Frac(InitialBalance, 1)
  /\ equity = <<>>
  /\ summary = [n_trades |-> 0]

IdleRB ==
  /\ rb_pc = "idle"
  /\ rb_sl_pct = <<>>
  /\ rb_rr = <<>>
  /\ rb_i = 0
  /\ rb_trades = <<>>
  /\ rb_signals = <<>>
  /\ rb_summary = [n_trades |-> 0]

IdleDS ==
  /\ ds_pc = "idle"
  /\ ds_call = <<>>
  /\ ds_result = <<>>

IdleBS ==
  /\ bs_cfg = <<>>
  /\ bs_df = <<>>
  /\ bs_pc = <<>>
  /\ bs_i = <<>>
  /\ bs_results = <<>>

IdleCI ==
  /\ ci_pc = "idle"
  /\ ci_call = <<>>
  /\ ci_full = <<>>
  /\ ci_i = 0
  /\ ci_rows = <<>>

IdleDP ==
  /\ dp_calls = <<>>
  /\ dp_results = <<>>
  /\ dp_store = <<>>

IdleNP ==
  /\ np_sig = <<>>
  /\ np_pc = "idle"
  /\ np_todo = <<>>
  /\ np_symbol = ""
  /\ np_g = <<>>
  /\ np_k = 0
  /\ np_pos = <<>>
  /\ np_rows = <<>>

IdleFO ==
  /\ fo_market = {}
  /\ fo_limit = 0
  /\ fo_now = 0
  /\ fo_pc = "idle"
  /\ fo_since = 0
  /\ fo_rows = <<>>
  /\ fo_errors = 0
  /\ fo_df = <<>>

InitMain(maxLen, risks) ==
  /\ bars \in BarSeqs(maxLen)
  /\ sig_df \in SigTables(bars, risks)
  /\ fs_pc = "loop"
  /\ fs_k = 0
  /\ trades = <<>>
  /\ balance = Frac(InitialBalance, 1)
  /\ equity = <<>>
  /\ summary = [n_trades |-> 0]
  /\ IdleRB /\ IdleDS /\ IdleBS /\ IdleCI /\ IdleDP /\ IdleNP /\ IdleFO

\* One iteration of the for loop over the signal rows whose find_exit finds
\* no window: the row is skipped.
FS_SkipRow ==
  /\ fs_pc = "loop"
  /\ fs_k < Len(sig_df)
  /\ LET r == sig_df[fs_k + 1]
         x == find_exit(bars, r.entry_ts, r.signal, r.stop_price, r.take_price)
     IN /\ x.exit_ts = None
        /\ fs_k' = fs_k + 1
        /\ UNCHANGED <<bars, sig_df, fs_pc, trades, balance, equity, summary>>
        /\ UNCHANGED <<rbVars, dsVars, bsVars, ciVars, dpVars, npVars, foVars>>

\* One iteration of the for loop that records a trade and an equity point.
FS_TradeRow ==
  /\ fs_pc = "loop"
  /\ fs_k < Len(sig_df)
  /\ LET r == sig_df[fs_k + 1]
         x == find_exit(bars, r.entry_ts, r.signal, r.stop_price, r.take_price)
         ret == TradeReturn(r.signal, r.entry_price, x.exit_price)
     IN /\ x.exit_ts # None
        /\ ~DivisionRaises(r.signal, r.entry_price, x)
        /\ trades' = Append(trades,
             [entry_ts |-> r.entry_ts, exit_ts |-> x.exit_ts, side |-> r.signal,
              entry_price |-> r.entry_price, exit_price |-> x.exit_price,
              return |-> ret, reason |-> x.reason])
        /\ balance' = ApplyReturn(balance, ret)
        /\ equity' = Append(equity, [timestamp |-> x.exit_ts, equity |-> balance'])
        /\ fs_k' = fs_k + 1
        /\ UNCHANGED <<bars, sig_df, fs_pc, summary>>
        /\ UNCHANGED <<rbVars, dsVars, bsVars, ciVars, dpVars, npVars, foVars>>

\* One iteration whose division on lines 87-90 raises: main() ends there,
\* before trades.csv and summary.json are written.
FS_TradeRaises ==
  /\ fs_pc = "loop"
  /\ fs_k < Len(sig_df)
  /\ LET r == sig_df[fs_k + 1]
         x == find_exit(bars, r.entry_ts, r.signal, r.stop_price, r.take_price)
     IN /\ x.exit_ts # None
        /\ DivisionRaises(r.signal, r.entry_price, x)
  /\ fs_pc' = "raised"
  /\ UNCHANGED <<bars, sig_df, fs_k, trades, balance, equity, summary>>
  /\ UNCHANGED <<rbVars, dsVars, bsVars, ciVars, dpVars, npVars, foVars>>

\* After the loop: the summary.
FS_Summary ==
  /\ fs_pc = "loop"
  /\ fs_k = Len(sig_df)
  /\ summary' = IF trades # <<>>
                THEN [n_trades |-> Len(trades),
                      profit_factor |-> ProfitFactor(trades),
                      final_equity |-> balance]
                ELSE [n_trades |-> 0]
  /\ fs_pc' = "done"
  /\ UNCHANGED <<bars, sig_df, fs_k, trades, balance, equity>>
  /\ UNCHANGED <<rbVars, dsVars, bsVars, ciVars, dpVars, npVars, foVars>>

NextFS == FS_SkipRow \/ FS_TradeRow \/ FS_Summary

InitFS == InitMain(MaxBars, UnitRisk)
InitFSLong == InitMain(MaxBarsLong, RiskSteps)

\* main() over tables of at most MaxBars bars with one stop distance, and
\* over tables of at most MaxBarsLong bars with rows of different stop
\* distances.
SpecFS == InitFS /\ [][NextFS]_vars
SpecFSLong == InitFSLong /\ [][NextFS]_vars

\* main() over tables whose prices may be zero. A row is as
\* generate_signal_history.py writes it for its bar: both levels sit on the
\* entry when the close is zero, one grid step away otherwise; rows may be
\* stamped after the last bar.
ZeroPrices == 0..MaxPrice
ZeroBarSet == {b \in [high : ZeroPrices, low : ZeroPrices, close : ZeroPrices] :
                 b.low <= b.close /\ b.close <= b.high}
ZeroBarSeqs == UNION {[1..n -> ZeroBarSet] : n \in 0..MaxBars}
ZeroSigRows(ohlcv) ==
  {SigRow(ts, s, ohlcv[ts].close, IF ohlcv[ts].close = 0 THEN 0 ELSE 1) :
     ts \in 1..Len(ohlcv), s \in Sides}
  \cup {SigRow(Len(ohlcv) + 1, s, MaxPrice, 1) : s \in Sides}
ZeroSigTables(ohlcv) ==
  {t \in UNION {[1..m -> ZeroSigRows(ohlcv)] : m \in 0..MaxSigs} :
     \A a, b \in 1..Len(t) : a < b => t[a].entry_ts < t[b].entry_ts}

InitFSZero ==
  /\ bars \in ZeroBarSeqs
  /\ sig_df \in ZeroSigTables(bars)
  /\ fs_pc = "loop"
  /\ fs_k = 0
  /\ trades = <<>>
  /\ balance = Frac(InitialBalance, 1)
  /\ equity = <<>>
  /\ summary = [n_trades |-> 0]
  /\ IdleRB /\ IdleDS /\ IdleBS /\ IdleCI /\ IdleDP /\ IdleNP /\ IdleFO

NextFSZero == FS_SkipRow \/ FS_TradeRow \/ FS_TradeRaises \/ FS_Summary

SpecFSZero == InitFSZero /\ [][NextFSZero]_vars

-----------------------------------------------------------------------------
(* Claims about run_backtest_from_signals.py *)

\* The row of the signal table a trade was made from.
RowOf(t) == CHOOSE r \in {sig_df[n] : n \in 1..Len(sig_df)} : r.entry_ts = t.entry_ts

StopCrossed(b, r) ==
  IF r.signal = "BUY" THEN b.low <= r.stop_price ELSE b.high >= r.stop_price
TakeCrossed(b, r) ==
  IF r.signal = "BUY" THEN b.high >= r.take_price ELSE b.low <= r.take_price

\* C1: exit priority. For every trade of the log and every bar its exit scan
\* read, if the bar crosses both the stop and the take level of the position
\* then the trade was closed on that bar, with reason stop, at the stop price.
C1_StopBeforeTarget ==
  \A n \in 1..Len(trades) :
    LET t == trades[n]
        r == RowOf(t)
    IN \A j \in WindowStart(t.entry_ts)..t.exit_ts :
         (StopCrossed(bars[j], r) /\ TakeCrossed(bars[j], r))
           => (j = t.exit_ts /\ t.reason = "sl" /\ t.exit_price = r.stop_price)

BothCrossedExit(t) ==
  /\ StopCrossed(bars[t.exit_ts], RowOf(t))
  /\ TakeCrossed(bars[t.exit_ts], RowOf(t))
  /\ t.reason = "sl"

C1_Witness ==
  /\ Len(trades) = 2
  /\ \E n \in 1..2 : trades[n].side = "BUY" /\ BothCrossedExit(trades[n])
  /\ \E n \in 1..2 : trades[n].side = "SELL" /\ BothCrossedExit(trades[n])

\* C2: single position slot. Any two trades of the log overlap in at most the
\* exit bar of the earlier one: the later one is entered no earlier than the
\* bar on which the earlier one was closed.
C2_SinglePositionSlot ==
  \A a, b \in 1..Len(trades) :
    a < b => trades[b].entry_ts >= trades[a].exit_ts

\* C4: no stop or take exit on the entry bar. Every trade closed by stop or
\* take has its exit bar strictly after its entry bar.
C4_ExitAfterEntryBar ==
  \A n \in 1..Len(trades) :
    trades[n].reason \in {"sl", "tp"} => trades[n].exit_ts > trades[n].entry_ts

\* C5: timeout. A trade whose scan met no bar crossing its stop or take, from
\* its first scanned bar to the end of the table, is closed with reason
\* timeout at the close and the timestamp of the final bar; and only such
\* trades are closed by timeout.
C5_TimeoutAtFinalBar ==
  \A n \in 1..Len(trades) :
    LET t == trades[n]
        r == RowOf(t)
        untouched == \A j \in WindowStart(t.entry_ts)..Len(bars) :
                       ~StopCrossed(bars[j], r) /\ ~TakeCrossed(bars[j], r)
    IN /\ untouched <=> t.reason = "timeout"
       /\ t.reason = "timeout" =>
            /\ t.exit_ts = Len(bars)
            /\ t.exit_price = bars[Len(bars)].close

C5_Witness ==
  /\ \E n \in 1..Len(trades) :
       trades[n].reason = "timeout" /\ trades[n].entry_ts = Len(bars)
  /\ \E n \in 1..Len(trades) :
       trades[n].reason = "timeout" /\ trades[n].entry_ts < Len(bars)

\* The product of (1 + return) over the first n trades of the log.
RECURSIVE GrowthTo(_)
GrowthTo(n) ==
  IF n = 0 THEN Frac(1, 1) ELSE FMul(GrowthTo(n - 1), FOnePlus(trades[n].return))

\* C7: equity compounding. The balance starts at 10000 and always equals
\* 10000 times the product of (1 + return) over the trades closed so far;
\* there is one equity point per trade, stamped with the trade's exit time
\* and holding the balance after that trade; the final equity of the summary
\* is 10000 times the product over all trades.
C7_EquityCompounds ==
  /\ FEq(balance, FMul(Frac(InitialBalance, 1), GrowthTo(Len(trades))))
  /\ Len(equity) = Len(trades)
  /\ \A n \in 1..Len(trades) :
       /\ equity[n].timestamp = trades[n].exit_ts
       /\ FEq(equity[n].equity, FMul(Frac(InitialBalance, 1), GrowthTo(n)))
  /\ (fs_pc = "done" /\ trades # <<>>) =>
       FEq(summary.final_equity, FMul(Frac(InitialBalance, 1), GrowthTo(Len(trades))))

C7_Witness ==
  /\ fs_pc = "done"
  /\ Len(trades) = 2
  /\ trades[1].return[1] # 0
  /\ trades[2].return[1] # 0

\* C8: ordered equity curve. The timestamps of successive equity points are
\* non-decreasing.
C8_EquityCurveOrdered ==
  \A n \in 1..(Len(equity) - 1) : equity[n].timestamp <= equity[n + 1].timestamp

\* C15: return fraction. Every recorded trade has 1 + return equal to
\* exit_price/entry_price when its side is BUY and to entry_price/exit_price
\* when its side is SELL, whatever its exit reason.
C15_ReturnFraction ==
  \A n \in 1..Len(trades) :
    LET t == trades[n] IN
    /\ t.side = "BUY" => FEq(FOnePlus(t.return), Frac(t.exit_price, t.entry_price))
    /\ t.side = "SELL" => FEq(FOnePlus(t.return), Frac(t.entry_price, t.exit_price))

C15_Witness ==
  \E n \in 1..Len(trades) :
    /\ trades[n].side = "SELL"
    /\ trades[n].reason = "tp"
    /\ trades[n].exit_price < trades[n].entry_price
    /\ trades[n].return[1] > 0

\* C17: degenerate arithmetic never raises. Whatever the bars, zero closes
\* and zero exit prices included, main() does not end in an exception: it
\* computes every return and goes on to write its trade log and summary.
C17_NeverRaises == fs_pc # "raised"

\* C18: profit factor. When main() is over with a non-empty trade log, the
\* profit factor of the summary is undefined (null) if no trade has a
\* negative return, and otherwise is the sum of the winning returns over the
\* absolute sum of the losing returns.
C18_ProfitFactor ==
  (fs_pc = "done" /\ trades # <<>>) =>
    IF \A n \in 1..Len(trades) : trades[n].return[1] >= 0
    THEN summary.profit_factor = <<>>
    ELSE /\ summary.profit_factor # <<>>
         /\ FEq(summary.profit_factor[1].gross_win,
                SumReturns(trades, Len(trades), TRUE))
         /\ FEq(summary.profit_factor[1].gross_loss,
                Abs(SumReturns(trades, Len(trades), FALSE)))

-----------------------------------------------------------------------------
(* scripts/backtest_rr.py: run_backtest *)

\* An argument that is None.
NoArg == <<>>

\* The parameters of detect_signal, and the keywords run_backtest passes in
\* both of its calls of it (the table is passed by position).
DetectSignalParams ==
  {"df", "symbol", "debounce_minutes", "fixed_rr", "sl_pct", "rsi_low", "rsi_high"}
RunBacktestKeywords == {"symbol", "debounce_minutes", "sl_pct", "rr"}

\* The columns of the table run_backtest slices and hands to detect_signal:
\* load_ohlcv_csv makes timestamp the index, and no indicator column is
\* added anywhere in backtest_rr.py.
RbSliceColumns == {"open", "high", "low", "close", "volume"}

\* A Python call binds its arguments only if every keyword names a parameter
\* of the callee; otherwise it raises TypeError before the body runs.
CallBinds(keywords, params) == keywords \subseteq params

\* getattr(config, "SL", 0.01) and getattr(config, "RR", 2.0): config.py
\* defines neither name.
DefaultSL == Frac(1, 100)
DefaultRR == Frac(2, 1)

SlPctArgs == {NoArg, Frac(1, 50)}
RrArgs == {NoArg, Frac(1, 1)}

InitRB ==
  /\ bars \in BarSeqs(MaxBars)
  /\ rb_pc = "start"
  /\ rb_sl_pct \in SlPctArgs
  /\ rb_rr \in RrArgs
  /\ rb_i = 0
  /\ rb_trades = <<>>
  /\ rb_signals = <<>>
  /\ rb_summary = [n_trades |-> 0]
  /\ IdleFS /\ IdleDS /\ IdleBS /\ IdleCI /\ IdleDP /\ IdleNP /\ IdleFO

\* Lines 29-41: the table is loaded, the defaults are filled in, i = 0.
RB_Defaults ==
  /\ rb_pc = "start"
  /\ rb_sl_pct' = IF rb_sl_pct = NoArg THEN DefaultSL ELSE rb_sl_pct
  /\ rb_rr' = IF rb_rr = NoArg THEN DefaultRR ELSE rb_rr
  /\ rb_i' = 0
  /\ rb_pc' = "loop"
  /\ UNCHANGED <<bars, rb_trades, rb_signals, rb_summary, fsVars, dsVars, bsVars, ciVars, dpVars, npVars, foVars>>

\* Lines 42-44: an iteration of the walk-forward loop. Its first statement
\* calls detect_signal with the keyword rr, which detect_signal does not
\* have: the call raises TypeError and run_backtest ends there. The rest of
\* the loop body (lines 45-137) follows that call and is never executed.
RB_DetectRaises ==
  /\ rb_pc = "loop"
  /\ rb_i < Len(bars)
  /\ ~CallBinds(RunBacktestKeywords, DetectSignalParams)
  /\ rb_pc' = "raised"
  /\ UNCHANGED <<bars, rb_sl_pct, rb_rr, rb_i, rb_trades, rb_signals, rb_summary>>
  /\ UNCHANGED <<fsVars, dsVars, bsVars, ciVars, dpVars, npVars, foVars>>

\* Lines 145-158: the summary of a trade log. The profit factor is <<>>
\* (None) or <<its two sums>>.
RECURSIVE CountReturns(_, _, _)
CountReturns(log, n, wins) ==
  IF n = 0 THEN 0
  ELSE CountReturns(log, n - 1, wins)
       + (IF (wins /\ IsWin(log[n].return)) \/ (~wins /\ IsLoss(log[n].return))
          THEN 1 ELSE 0)

RECURSIVE Compound(_, _)
Compound(log, n) ==
  IF n = 0 THEN Frac(1, 1) ELSE FMul(Compound(log, n - 1), FOnePlus(log[n].return))

Mean(sum, count) == IF count > 0 THEN <<sum[1], sum[2] * count>> ELSE Frac(0, 1)

RbSummaryAlwaysFull(log) ==
  [n_trades |-> Len(log), profit_factor |-> <<>>]

RbSummary(log) ==
  IF Len(log) > 0
  THEN LET n == Len(log)
           n_wins == CountReturns(log, n, TRUE)
           n_losses == CountReturns(log, n, FALSE)
           total == Compound(log, n)
       IN [n_trades |-> n,
           win_rate |-> Frac(n_wins, n),
           avg_win |-> Mean(SumReturns(log, n, TRUE), n_wins),
           avg_loss |-> Mean(SumReturns(log, n, FALSE), n_losses),
           profit_factor |->
             IF n_losses > 0
             THEN <<[gross_win |-> SumReturns(log, n, TRUE),
                     gross_loss |-> Abs(SumReturns(log, n, FALSE)),
                     plus |-> "0"]>>
             ELSE <<>>,
           total_return |-> <<total[1] - total[2], total[2]>>]
  ELSE [n_trades |-> 0]

\* Lines 139-163: the loop condition fails; the outputs and the summary.
RB_Outputs ==
  /\ rb_pc = "loop"
  /\ rb_i >= Len(bars)
  /\ rb_summary' = RbSummary(rb_trades)
  /\ rb_pc' = "done"
  /\ UNCHANGED <<bars, rb_sl_pct, rb_rr, rb_i, rb_trades, rb_signals>>
  /\ UNCHANGED <<fsVars, dsVars, bsVars, ciVars, dpVars, npVars, foVars>>

NextRB == RB_Defaults \/ RB_DetectRaises \/ RB_Outputs

SpecRB == InitRB /\ [][NextRB]_vars

\* C6: termination and closure. When run_backtest is over, the cursor has
\* reached the end of the bar sequence, the run has ended normally, and every
\* accepted entry signal has produced exactly one trade.
C6_WalkTerminatesClosed ==
  rb_pc \in {"done", "raised"} =>
    /\ rb_pc = "done"
    /\ rb_i = Len(bars)
    /\ Len(rb_trades) = Len(rb_signals)

\* C14: the engine opens a position only on a signal with usable stop and
\* take prices. Once run_backtest has filled in its defaults its
\* stop_fraction and reward_ratio are defined (0.01 and 2.0 when the caller
\* gave none), every call of the detector is handed them and returns, and
\* every signal the engine accepted carries both levels.
C14_OpensOnUsableSignal ==
  /\ rb_pc # "start" =>
       /\ rb_sl_pct \in (SlPctArgs \ {NoArg}) \cup {Frac(1, 100)}
       /\ rb_rr \in (RrArgs \ {NoArg}) \cup {Frac(2, 1)}
  /\ rb_pc # "raised"
  /\ \A n \in 1..Len(rb_signals) :
       rb_signals[n].stop_price # NoArg /\ rb_signals[n].take_price # NoArg

\* C22: signal evaluation over the causal prefix. Whenever the engine is
\* flat at a cursor i inside the table, the detector call it makes there is
\* evaluated, and on an indicator snapshot of bars [0..i]: the call binds
\* its arguments and its table carries the oscillator column.
C22_SignalOnCausalPrefix ==
  (rb_pc = "loop" /\ rb_i < Len(bars)) =>
    /\ CallBinds(RunBacktestKeywords, DetectSignalParams)
    /\ "rsi" \in RbSliceColumns

\* C24: cursor movement. Every iteration of the walk leaves the engine
\* walking with the cursor further on: at the exit bar j > i after a trade,
\* at i+1 when there is no signal, at the end after a timeout.
C24_CursorMovement ==
  [][(rb_pc = "loop" /\ rb_i < Len(bars)) =>
       (rb_pc' = "loop" /\ rb_i' > rb_i /\ rb_i' <= Len(bars))]_vars

\* The default of minimum_warmup_bars (--window-min).
WindowMinDefault == 200

\* C16: insufficient data. A bar sequence with fewer bars than
\* minimum_warmup_bars (200) is skipped by the engine: the detector is not
\* called on it, nothing is recorded, and the run does not end in an error.
C16_ShortTableSkipped ==
  Len(bars) < WindowMinDefault =>
    /\ rb_pc # "raised"
    /\ rb_signals = <<>>
    /\ rb_trades = <<>>

-----------------------------------------------------------------------------
(* src/utils/indicators.py *)

\* Floats that are not finite fractions: a zero denominator.
NaN == <<0, 0>>
Inf == <<1, 0>>
IsNaN(x) == x[1] = 0 /\ x[2] = 0
IsInf(x) == x[1] # 0 /\ x[2] = 0

FAdd(a, b) == <<a[1] * b[2] + b[1] * a[2], a[2] * b[2]>>
FSub(a, b) == <<a[1] * b[2] - b[1] * a[2], a[2] * b[2]>>

\* a / b on float64 series of non-negative values: x/0 is inf, 0/0 is NaN.
FDiv(a, b) ==
  IF b[1] = 0 THEN (IF a[1] = 0 THEN NaN ELSE Inf)
  ELSE <<a[1] * b[2], a[2] * b[1]>>

\* One step of ewm(adjust=False).mean() with alpha = an/ad.
EwmStep(prev, x, an, ad) ==
  <<(ad - an) * prev[1] + an * x * prev[2], ad * prev[2]>>

\* ema: series.ewm(span=span, adjust=False).mean(), alpha = 2/(span+1).
RECURSIVE EmaAt(_, _, _)
EmaAt(series, span, t) ==
  IF t = 1 THEN Frac(series[1], 1)
  ELSE EwmStep(EmaAt(series, span, t - 1), series[t], 2, span + 1)

emaShiftedBack(series, span) ==
  [t \in 1..Len(series) |->
     EmaAt(series, span, IF t < Len(series) THEN t + 1 ELSE t)]

ema(series, span) == [t \in 1..Len(series) |-> EmaAt(series, span, t)]

\* delta = series.diff(), up = delta.clip(lower=0), down = -delta.clip(upper=0),
\* at position t >= 2 (position 1 is NaN).
Up(series, t) ==
  IF series[t] - series[t - 1] > 0 THEN series[t] - series[t - 1] ELSE 0
Down(series, t) ==
  IF series[t] - series[t - 1] < 0 THEN series[t - 1] - series[t] ELSE 0

\* ewm(alpha=1/period, adjust=False) of up (gain = TRUE) or down: the NaN at
\* position 1 is skipped, the value at position 2 starts the average.
RECURSIVE RollAt(_, _, _, _)
RollAt(series, period, gain, t) ==
  LET x == IF gain THEN Up(series, t) ELSE Down(series, t) IN
  IF t = 2 THEN Frac(x, 1)
  ELSE EwmStep(RollAt(series, period, gain, t - 1), x, 1, period)

\* min_periods=period: NaN until `period` changes have been observed.
MinPeriodsMet(period, t) == t - 1 >= period

\* rsi before fillna, at position t.
RsiRawAtNoOnePlus(series, period, t) ==
  IF ~MinPeriodsMet(period, t) THEN NaN
  ELSE LET roll_up == RollAt(series, period, TRUE, t)
           roll_down == RollAt(series, period, FALSE, t)
           rs == FDiv(roll_up, roll_down)
       IN IF IsNaN(rs) THEN NaN
          ELSE IF IsInf(rs) THEN Frac(100, 1)
          ELSE FSub(Frac(100, 1), FDiv(Frac(100, 1), rs))

RsiRawAt(series, period, t) ==
  IF ~MinPeriodsMet(period, t) THEN NaN
  ELSE LET roll_up == RollAt(series, period, TRUE, t)
           roll_down == RollAt(series, period, FALSE, t)
           rs == FDiv(roll_up, roll_down)
       IN IF IsNaN(rs) THEN NaN
          ELSE IF IsInf(rs) THEN Frac(100, 1)
          ELSE FSub(Frac(100, 1), FDiv(Frac(100, 1), FAdd(Frac(1, 1), rs)))

\* rsi.fillna(0.0)
FillNa(x) == IF IsNaN(x) THEN Frac(0, 1) ELSE x

rsi(series, period) ==
  [t \in 1..Len(series) |-> FillNa(RsiRawAt(series, period, t))]

\* compute_indicators on a table of closes; timestamps are the positions.
compute_indicators(df, ema_fast, ema_slow, rsi_period) ==
  [columns |-> {"timestamp", "close", "ema_fast", "ema_slow", "rsi"},
   rows |-> [t \in 1..Len(df) |->
               [timestamp |-> t, close |-> df[t],
                ema_fast |-> ema(df, ema_fast)[t],
                ema_slow |-> ema(df, ema_slow)[t],
                rsi |-> rsi(df, rsi_period)[t]]]]

-----------------------------------------------------------------------------
(* src/workers/signal_engine.py *)

RSI_LOW == 20
RSI_HIGH == 80

\* A cell value float() raises on (None, text).
Unparsable == <<>>

\* No signal: the None returned by detect_signal. A signal is <<record>>.
NoSignal == <<>>

\* v <= k and v >= k for a float v and an integer k; false when v is NaN.
FLeInt(v, k) == ~IsNaN(v) /\ v[1] <= k * v[2]
FGeInt(v, k) == ~IsNaN(v) /\ v[1] >= k * v[2]

RECURSIVE Pow10(_)
Pow10(n) == IF n = 0 THEN 1 ELSE 10 * Pow10(n - 1)

RECURSIVE Gcd(_, _)
Gcd(a, b) == IF b = 0 THEN a ELSE Gcd(b, a % b)

\* A non-negative fraction in lowest terms.
Lowest(x) == LET g == Gcd(x[1], x[2]) IN <<x[1] \div g, x[2] \div g>>

\* The first k decimals of rem/den < 1 as an integer, and what remains:
\* <<rem * 10^k \div den, rem * 10^k % den>>, by long division.
RECURSIVE DecimalsOf(_, _, _)
DecimalsOf(rem, den, k) ==
  IF k = 0 THEN <<0, rem>>
  ELSE LET p == DecimalsOf(rem, den, k - 1)
           t == p[2] * 10
       IN <<p[1] * 10 + (t \div den), t % den>>

\* round(x, digits) of a non-negative value: x itself when it has no more
\* decimals than that, else the nearest multiple of 10^-digits (ties to even).
\* The value is given in lowest terms.
Round(x, digits) ==
  LET y == Lowest(x) IN
  IF Pow10(digits) % y[2] = 0 THEN y
  ELSE LET whole == y[1] \div y[2]
           d == DecimalsOf(y[1] % y[2], y[2], digits)
           q == d[1]
           r == d[2]
           up == 2 * r > y[2] \/ (2 * r = y[2] /\ q % 2 = 1)
       IN Lowest(Frac(whole * Pow10(digits) + (IF up THEN q + 1 ELSE q),
                      Pow10(digits)))

\* Lines 97-104: the side, or "NONE".
DetectSideStrict(last_rsi_val, rsi_low, rsi_high) ==
  IF ~IsNaN(last_rsi_val) /\ last_rsi_val[1] < rsi_low * last_rsi_val[2] THEN "BUY"
  ELSE IF ~IsNaN(last_rsi_val) /\ last_rsi_val[1] > rsi_high * last_rsi_val[2] THEN "SELL"
  ELSE "NONE"

DetectSide(last_rsi_val, rsi_low, rsi_high) ==
  IF FLeInt(last_rsi_val, rsi_low) THEN "BUY"
  ELSE IF FGeInt(last_rsi_val, rsi_high) THEN "SELL"
  ELSE "NONE"

\* Lines 106-138: the stop and take prices (None is <<>>).
StopPriceSidesSwapped(side, entry_price, sl_pct_out) ==
  IF sl_pct_out = NoArg THEN NoArg
  ELSE IF side = "BUY"
       THEN FMul(Frac(entry_price, 1), FAdd(Frac(1, 1), sl_pct_out))
       ELSE FMul(Frac(entry_price, 1), FSub(Frac(1, 1), sl_pct_out))

StopPriceOnePercentDefault(side, entry_price, sl_pct_out) ==
  LET s == IF sl_pct_out = NoArg THEN Frac(1, 100) ELSE sl_pct_out IN
  IF side = "BUY"
  THEN FMul(Frac(entry_price, 1), FSub(Frac(1, 1), s))
  ELSE FMul(Frac(entry_price, 1), FAdd(Frac(1, 1), s))

StopPrice(side, entry_price, sl_pct_out) ==
  IF sl_pct_out = NoArg THEN NoArg
  ELSE IF side = "BUY"
       THEN FMul(Frac(entry_price, 1), FSub(Frac(1, 1), sl_pct_out))
       ELSE FMul(Frac(entry_price, 1), FAdd(Frac(1, 1), sl_pct_out))

TakePriceTwoToOne(side, entry_price, sl_pct_out, rr_out) ==
  IF sl_pct_out = NoArg THEN NoArg
  ELSE LET stop_price == StopPrice(side, entry_price, sl_pct_out) IN
       IF rr_out # NoArg
       THEN IF side = "BUY"
            THEN FAdd(Frac(entry_price, 1),
                      FMul(rr_out, FSub(Frac(entry_price, 1), stop_price)))
            ELSE FSub(Frac(entry_price, 1),
                      FMul(rr_out, FSub(stop_price, Frac(entry_price, 1))))
       ELSE IF side = "BUY"
            THEN FMul(Frac(entry_price, 1), FAdd(Frac(1, 1), FMul(sl_pct_out, Frac(2, 1))))
            ELSE FMul(Frac(entry_price, 1), FSub(Frac(1, 1), FMul(sl_pct_out, Frac(2, 1))))

TakePriceStopSide(side, entry_price, sl_pct_out, rr_out) ==
  IF sl_pct_out = NoArg THEN NoArg
  ELSE LET stop_price == StopPrice(side, entry_price, sl_pct_out) IN
       IF rr_out # NoArg
       THEN IF side = "BUY"
            THEN FSub(Frac(entry_price, 1),
                      FMul(rr_out, FSub(Frac(entry_price, 1), stop_price)))
            ELSE FAdd(Frac(entry_price, 1),
                      FMul(rr_out, FSub(stop_price, Frac(entry_price, 1))))
       ELSE IF side = "BUY"
            THEN FMul(Frac(entry_price, 1), FAdd(Frac(1, 1), FMul(sl_pct_out, Frac(3, 1))))
            ELSE FMul(Frac(entry_price, 1), FSub(Frac(1, 1), FMul(sl_pct_out, Frac(3, 1))))

TakePrice(side, entry_price, sl_pct_out, rr_out) ==
  IF sl_pct_out = NoArg THEN NoArg
  ELSE LET stop_price == StopPrice(side, entry_price, sl_pct_out) IN
       IF rr_out # NoArg
       THEN IF side = "BUY"
            THEN FAdd(Frac(entry_price, 1),
                      FMul(rr_out, FSub(Frac(entry_price, 1), stop_price)))
            ELSE FSub(Frac(entry_price, 1),
                      FMul(rr_out, FSub(stop_price, Frac(entry_price, 1))))
       ELSE IF side = "BUY"
            THEN FMul(Frac(entry_price, 1), FAdd(Frac(1, 1), FMul(sl_pct_out, Frac(3, 1))))
            ELSE FMul(Frac(entry_price, 1), FSub(Frac(1, 1), FMul(sl_pct_out, Frac(3, 1))))

RoundOpt(x, digits) == IF x = NoArg THEN NoArg ELSE Round(x, digits)

\* detect_signal. df is [columns, rows]; the last row is the one read.
detect_signalDebounced(df, symbol, debounce_minutes, fixed_rr, sl_pct, rsi_low, rsi_high) ==
  IF debounce_minutes > 0 \/ Len(df.rows) < 1 \/ "rsi" \notin df.columns
     \/ ("close" \notin df.columns /\ "price" \notin df.columns)
  THEN NoSignal
  ELSE LET last == df.rows[Len(df.rows)]
           entry_price == IF "close" \in df.columns THEN last.close ELSE last.price
           entry_ts == IF "timestamp" \in df.columns THEN last.timestamp ELSE None
       IN IF last.rsi = Unparsable THEN NoSignal
          ELSE LET side == DetectSide(last.rsi, rsi_low, rsi_high)
                   sl_pct_out == IF sl_pct = NoArg /\ fixed_rr # NoArg
                                 THEN Frac(1, 100) ELSE sl_pct
               IN IF side = "NONE" THEN NoSignal
                  ELSE <<[symbol |-> symbol,
                          side |-> side,
                          entry_price |-> Round(Frac(entry_price, 1), 8),
                          entry_ts |-> entry_ts,
                          stop_price |-> RoundOpt(StopPrice(side, entry_price, sl_pct_out), 8),
                          take_price |-> RoundOpt(TakePrice(side, entry_price, sl_pct_out, fixed_rr), 8),
                          sl_pct |-> sl_pct_out,
                          rr |-> fixed_rr,
                          rsi |-> Round(last.rsi, 3)]>>

detect_signal(df, symbol, debounce_minutes, fixed_rr, sl_pct, rsi_low, rsi_high) ==
  IF Len(df.rows) < 1 THEN NoSignal
  ELSE IF "rsi" \notin df.columns
          \/ ("close" \notin df.columns /\ "price" \notin df.columns) THEN NoSignal
  ELSE LET last == df.rows[Len(df.rows)]
           last_rsi == last.rsi
           entry_price == IF "close" \in df.columns THEN last.close ELSE last.price
           entry_ts == IF "timestamp" \in df.columns THEN last.timestamp ELSE None
       IN IF last_rsi = Unparsable THEN NoSignal
          ELSE LET side == DetectSide(last_rsi, rsi_low, rsi_high)
                   sl_pct_out == IF sl_pct = NoArg /\ fixed_rr # NoArg
                                 THEN Frac(1, 100) ELSE sl_pct
                   rr_out == fixed_rr
               IN IF side = "NONE" THEN NoSignal
                  ELSE <<[symbol |-> symbol,
                          side |-> side,
                          entry_price |-> Round(Frac(entry_price, 1), 8),
                          entry_ts |-> entry_ts,
                          stop_price |-> RoundOpt(StopPrice(side, entry_price, sl_pct_out), 8),
                          take_price |-> RoundOpt(TakePrice(side, entry_price, sl_pct_out, rr_out), 8),
                          sl_pct |-> sl_pct_out,
                          rr |-> rr_out,
                          rsi |-> Round(last_rsi, 3)]>>

\* The value a parameter with a default is bound to (<<>>: argument omitted).
BindDefault(arg, default) == IF arg = <<>> THEN default ELSE arg[1]

-----------------------------------------------------------------------------
(* A call of detect_signal *)

\* Further bounds and constants of the calls examined.
RsiMax == 100
MidThreshold == 50

\* Values of the rsi cell of the last row: a number of the grid, NaN, or a
\* value that is no number.
RsiCells == {Frac(v, 1) : v \in 0..RsiMax} \cup {NaN, Unparsable}

\* One-row and empty tables with the column sets the callers produce.
CallTables ==
  {[columns |-> c, rows |-> <<[timestamp |-> 1, close |-> p, price |-> p, rsi |-> v]>>] :
     c \in {{"timestamp", "close", "rsi"}, {"price", "rsi"}, {"timestamp", "close"}},
     p \in Prices, v \in RsiCells}
  \cup {[columns |-> {"timestamp", "close", "rsi"}, rows |-> <<>>]}

\* Threshold arguments: omitted, or given.
LowArgs == {<<>>, <<MidThreshold>>, <<RSI_HIGH>>}
HighArgs == {<<>>, <<MidThreshold>>, <<RSI_LOW>>}

\* Risk arguments: omitted, or given; one stop fraction is on the grid of
\* 8 decimals, one (a third) is not, and one (under 5e-9) is below half a step of it.
FixedRrArgs == {NoArg, Frac(2, 1)}
StopFractionArgs == {NoArg, Frac(1, 50), Frac(1, 3), Frac(1, 210000000)}

InitDS ==
  /\ ds_pc = "call"
  /\ ds_call \in [df : CallTables, symbol : {"BTCUSDT"}, debounce_minutes : {0, 15},
                  fixed_rr : FixedRrArgs, sl_pct : StopFractionArgs,
                  rsi_low : LowArgs, rsi_high : HighArgs]
  /\ ds_result = NoSignal
  /\ bars = <<>>
  /\ IdleFS /\ IdleRB /\ IdleBS /\ IdleCI /\ IdleDP /\ IdleNP /\ IdleFO

DS_Call ==
  /\ ds_pc = "call"
  /\ ds_result' = detect_signal(ds_call.df, ds_call.symbol, ds_call.debounce_minutes,
                                ds_call.fixed_rr, ds_call.sl_pct,
                                BindDefault(ds_call.rsi_low, RSI_LOW),
                                BindDefault(ds_call.rsi_high, RSI_HIGH))
  /\ ds_pc' = "returned"
  /\ UNCHANGED <<bars, ds_call, fsVars, rbVars, bsVars, ciVars, dpVars, npVars, foVars>>

NextDS == DS_Call

SpecDS == InitDS /\ [][NextDS]_vars

\* The call read a number from the rsi cell of a last row.
NumericCall ==
  /\ Len(ds_call.df.rows) >= 1
  /\ "rsi" \in ds_call.df.columns
  /\ ds_call.df.rows[1].rsi \notin {NaN, Unparsable}

\* The thresholds of the call: the arguments, or 20 and 80 when omitted.
CallLow == IF ds_call.rsi_low = <<>> THEN 20 ELSE ds_call.rsi_low[1]
CallHigh == IF ds_call.rsi_high = <<>> THEN 80 ELSE ds_call.rsi_high[1]
CallRsi == ds_call.df.rows[1].rsi[1]

Signalled == ds_pc = "returned" /\ ds_result # NoSignal
CallEntry == ds_call.df.rows[1].close
RiskGiven == ds_call.sl_pct # NoArg \/ ds_call.fixed_rr # NoArg
CallStopFraction == IF ds_call.sl_pct # NoArg THEN ds_call.sl_pct ELSE Frac(1, 100)

\* entry*(1 - s) for BUY, entry*(1 + s) for SELL.
ClaimedStop(side, e, sf) ==
  IF side = "BUY" THEN Frac(e * (sf[2] - sf[1]), sf[2])
  ELSE Frac(e * (sf[2] + sf[1]), sf[2])

\* entry + rr*(entry - stop) for BUY and entry - rr*(stop - entry) for SELL
\* with the stop above, or entry*(1 +- 3*s) when rr is absent.
ClaimedTake(side, e, sf, rr) ==
  IF rr # NoArg
  THEN IF side = "BUY"
       THEN Frac(e * (rr[2] * sf[2] + rr[1] * sf[1]), rr[2] * sf[2])
       ELSE Frac(e * (rr[2] * sf[2] - rr[1] * sf[1]), rr[2] * sf[2])
  ELSE IF side = "BUY"
       THEN Frac(e * (sf[2] + 3 * sf[1]), sf[2])
       ELSE Frac(e * (sf[2] - 3 * sf[1]), sf[2])

\* C11 as stated: take price. A signal returned by a call given a
\* stop_fraction or a reward_ratio has take_price equal to
\* entry +- rr*|entry - stop| when rr is given and to entry*(1 +- 3*s) when
\* only s is given.
C11_TakePriceExact ==
  (Signalled /\ RiskGiven) =>
    /\ ds_result[1].take_price # NoArg
    /\ ds_result[1].take_price =
         Lowest(ClaimedTake(ds_result[1].side, CallEntry, CallStopFraction,
                            ds_call.fixed_rr))

\* C11 amended: take price. The take_price of such a signal is that value
\* rounded to 8 decimal places.
C11_TakePriceRounded ==
  (Signalled /\ RiskGiven) =>
    /\ ds_result[1].take_price # NoArg
    /\ ds_result[1].take_price =
         Round(ClaimedTake(ds_result[1].side, CallEntry, CallStopFraction,
                           ds_call.fixed_rr), 8)

C11_Witness ==
  /\ Signalled
  /\ ds_call.fixed_rr # NoArg /\ ds_call.sl_pct = Frac(1, 3)
  /\ ds_result[1].side = "BUY"
  /\ ~FEq(ds_result[1].take_price,
          ClaimedTake("BUY", CallEntry, CallStopFraction, ds_call.fixed_rr))

\* C12 as stated: stop price and its default. A signal returned by a call
\* given a stop_fraction or a reward_ratio has stop_price equal to
\* entry*(1 - s) for BUY and entry*(1 + s) for SELL, s being the given
\* stop_fraction or 0.01 when only the reward_ratio is given, and reports
\* that s as its stop_fraction.
C12_StopPriceExact ==
  (Signalled /\ RiskGiven) =>
    /\ ds_result[1].stop_price # NoArg
    /\ ds_result[1].stop_price =
         Lowest(ClaimedStop(ds_result[1].side, CallEntry, CallStopFraction))
    /\ ds_result[1].sl_pct = CallStopFraction

\* C12 amended: stop price and its default. The stop_price of such a signal
\* is that value rounded to 8 decimal places; the reported stop_fraction is
\* s itself.
C12_StopPriceRounded ==
  (Signalled /\ RiskGiven) =>
    /\ ds_result[1].stop_price # NoArg
    /\ ds_result[1].stop_price =
         Round(ClaimedStop(ds_result[1].side, CallEntry, CallStopFraction), 8)
    /\ ds_result[1].sl_pct = CallStopFraction

C12_Witness ==
  /\ Signalled
  /\ ds_call.sl_pct = NoArg /\ ds_call.fixed_rr # NoArg
  /\ ds_result[1].side = "SELL"
  /\ ds_result[1].sl_pct = Frac(1, 100)
  /\ FEq(ds_result[1].stop_price, Frac(101 * CallEntry, 100))

\* Line 98 of backtest_rr.py (and lines 87-90 of run_backtest_from_signals.py):
\* the return of a trade between two prices given as fractions.
ReturnBetween(side, entry_price, exit_price) ==
  IF side = "BUY"
  THEN FSub(FDiv(exit_price, entry_price), Frac(1, 1))
  ELSE FSub(FDiv(entry_price, exit_price), Frac(1, 1))

\* A signal for a position: entry_price > 0, 0 < stop_fraction < 1,
\* reward_ratio > 0 and take_price > 0.
PositionSignal ==
  /\ Signalled
  /\ ds_call.fixed_rr # NoArg
  /\ ds_result[1].take_price[1] > 0

\* level < entry and level > entry for a level <<n, d>> and the entry e.
Below(level, e) == level[1] < e * level[2]
Above(level, e) == level[1] > e * level[2]

\* C30 as stated: sign of resolved returns. The levels of a position signal
\* lie strictly on opposite sides of the entry (BUY: stop < entry < take;
\* SELL: take < entry < stop), so a trade that exits at the stop has a
\* strictly negative return and one that exits at the take a strictly
\* positive return.
C30_LevelsStrictlyApart ==
  PositionSignal =>
    LET sig == ds_result[1] IN
    /\ sig.side = "BUY" => (Below(sig.stop_price, CallEntry) /\ Above(sig.take_price, CallEntry))
    /\ sig.side = "SELL" => (Above(sig.stop_price, CallEntry) /\ Below(sig.take_price, CallEntry))
    /\ ReturnBetween(sig.side, sig.entry_price, sig.stop_price)[1] < 0
    /\ ReturnBetween(sig.side, sig.entry_price, sig.take_price)[1] > 0

\* C30 amended: sign of resolved returns. The levels lie on opposite sides
\* of the entry, not always strictly (BUY: stop <= entry <= take; SELL:
\* take <= entry <= stop), so a trade that exits at the stop has a return
\* <= 0 and one that exits at the take a return >= 0.
C30_LevelsApart ==
  PositionSignal =>
    LET sig == ds_result[1] IN
    /\ sig.side = "BUY" => (~Above(sig.stop_price, CallEntry) /\ ~Below(sig.take_price, CallEntry))
    /\ sig.side = "SELL" => (~Below(sig.stop_price, CallEntry) /\ ~Above(sig.take_price, CallEntry))
    /\ ReturnBetween(sig.side, sig.entry_price, sig.stop_price)[1] <= 0
    /\ ReturnBetween(sig.side, sig.entry_price, sig.take_price)[1] >= 0

C30_Witness ==
  /\ PositionSignal
  /\ ds_call.sl_pct = Frac(1, 210000000)
  /\ ds_result[1].side = "BUY"
  /\ ds_result[1].stop_price = ds_result[1].entry_price
  /\ Above(ds_result[1].take_price, CallEntry)
  /\ ReturnBetween("BUY", ds_result[1].entry_price, ds_result[1].stop_price)[1] = 0

\* C13: soft signal. A call given neither stop_fraction nor reward_ratio
\* whose oscillator value is at or beyond a threshold returns a signal with
\* a side and the entry price, and with stop_price and take_price undefined.
C13_SoftSignal ==
  (ds_pc = "returned" /\ NumericCall /\ ~RiskGiven
     /\ (CallRsi <= CallLow \/ CallRsi >= CallHigh)) =>
    /\ ds_result # NoSignal
    /\ ds_result[1].side \in Sides
    /\ FEq(ds_result[1].entry_price, Frac(CallEntry, 1))
    /\ ds_result[1].stop_price = NoArg
    /\ ds_result[1].take_price = NoArg

C13_Witness ==
  /\ Signalled /\ NumericCall /\ ~RiskGiven
  /\ ds_result[1].side = "BUY"
  /\ ds_result[1].stop_price = NoArg /\ ds_result[1].take_price = NoArg

-----------------------------------------------------------------------------
(* scripts/backtest.py: backtest_single, run on a table and on a prefix of it *)

MaxSeries == 3
MaxPeriod == 2
MaxWindowMin == 2
EmaFastDefault == 9
EmaSlowDefault == 21

Runs == {1, 2}
CloseSeqs == UNION {[1..n -> Prices] : n \in 0..MaxSeries}

InitBS ==
  /\ bs_cfg \in [rsi_period : 1..MaxPeriod, window_min : 0..MaxWindowMin,
                 ema_fast : {EmaFastDefault}, ema_slow : {EmaSlowDefault}]
  /\ \E tbl \in CloseSeqs : \E cut \in 0..Len(tbl) :
       bs_df = <<tbl, SubSeq(tbl, 1, cut)>>
  /\ bs_pc = <<"load", "load">>
  /\ bs_i = <<0, 0>>
  /\ bs_results = <<<<>>, <<>>>>
  /\ bars = <<>>
  /\ IdleFS /\ IdleRB /\ IdleDS /\ IdleCI /\ IdleDP /\ IdleNP /\ IdleFO

\* Lines 73-76: a table shorter than window_min is skipped.
BS_Skip(r) ==
  /\ bs_pc[r] = "load"
  /\ Len(bs_df[r]) < bs_cfg.window_min
  /\ bs_pc' = [bs_pc EXCEPT ![r] = "done"]
  /\ UNCHANGED <<bars, bs_cfg, bs_df, bs_i, bs_results, fsVars, rbVars, dsVars, ciVars, dpVars, npVars, foVars>>

\* Lines 78-80: the walk starts at bar window_min.
BS_Start(r) ==
  /\ bs_pc[r] = "load"
  /\ Len(bs_df[r]) >= bs_cfg.window_min
  /\ bs_pc' = [bs_pc EXCEPT ![r] = "loop"]
  /\ bs_i' = [bs_i EXCEPT ![r] = bs_cfg.window_min]
  /\ UNCHANGED <<bars, bs_cfg, bs_df, bs_results, fsVars, rbVars, dsVars, ciVars, dpVars, npVars, foVars>>

\* slice_df = df.iloc[: i+1]
SliceWholeTable(df, i) == df

Slice(df, i) == SubSeq(df, 1, i + 1)

\* Lines 80-86: one iteration of the walk.
BS_Iter(r) ==
  /\ bs_pc[r] = "loop"
  /\ bs_i[r] < Len(bs_df[r])
  /\ LET slice_df == Slice(bs_df[r], bs_i[r])
         slice_ind == compute_indicators(slice_df, bs_cfg.ema_fast, bs_cfg.ema_slow,
                                         bs_cfg.rsi_period)
         signal == detect_signal(slice_ind, "BTCUSDT", 0, NoArg, NoArg,
                                 RSI_LOW, RSI_HIGH)
         last == slice_ind.rows[Len(slice_ind.rows)]
     IN bs_results' = [bs_results EXCEPT ![r] =
          Append(@, [timestamp |-> last.timestamp, symbol |-> "BTCUSDT",
                     signal |-> signal, price |-> last.close])]
  /\ bs_i' = [bs_i EXCEPT ![r] = @ + 1]
  /\ UNCHANGED <<bars, bs_cfg, bs_df, bs_pc, fsVars, rbVars, dsVars, ciVars, dpVars, npVars, foVars>>

\* Lines 88-89: the loop is over.
BS_Return(r) ==
  /\ bs_pc[r] = "loop"
  /\ bs_i[r] >= Len(bs_df[r])
  /\ bs_pc' = [bs_pc EXCEPT ![r] = "done"]
  /\ UNCHANGED <<bars, bs_cfg, bs_df, bs_i, bs_results, fsVars, rbVars, dsVars, ciVars, dpVars, npVars, foVars>>

NextBS == \E r \in Runs : BS_Skip(r) \/ BS_Start(r) \/ BS_Iter(r) \/ BS_Return(r)

SpecBS == InitBS /\ [][NextBS]_vars

C10_WarmupNoSignal ==
  \A r \in Runs : \A n \in 1..Len(bs_results[r]) :
    bs_results[r][n].timestamp - 1 < bs_cfg.rsi_period
      => bs_results[r][n].signal = NoSignal

\* The skip of backtest_single (lines 74-76): a run over a table shorter
\* than window_min ends with no row recorded.
ShortTableSkippedByBacktestSingle ==
  \A r \in Runs :
    (bs_pc[r] = "done" /\ Len(bs_df[r]) < bs_cfg.window_min) => bs_results[r] = <<>>

-----------------------------------------------------------------------------
(* Empty input *)

\* The default of the oscillator period.
RsiPeriodDefault == 14

\* The close column of the bar table.
Closes == [t \in 1..Len(bars) |-> bars[t].close]

\* C19: empty input. When run_backtest is over an empty bar sequence, the
\* averages and the oscillator of its closes are empty sequences,
\* detect_signal on the indicator table returns no signal, no trade and no
\* signal is recorded, and the summary is n_trades = 0 with no profit-factor
\* field.
C19_EmptyInput ==
  (rb_pc = "done" /\ bars = <<>>) =>
    /\ ema(Closes, EmaFastDefault) = <<>>
    /\ ema(Closes, EmaSlowDefault) = <<>>
    /\ rsi(Closes, RsiPeriodDefault) = <<>>
    /\ detect_signal(compute_indicators(Closes, EmaFastDefault, EmaSlowDefault,
                                        RsiPeriodDefault),
                     "BTCUSDT", 0, rb_rr, rb_sl_pct, RSI_LOW, RSI_HIGH) = NoSignal
    /\ rb_trades = <<>> /\ rb_signals = <<>>
    /\ rb_summary.n_trades = 0
    /\ "profit_factor" \notin DOMAIN rb_summary

C19_Witness ==
  /\ rb_pc = "done" /\ bars = <<>>
  /\ rb_sl_pct = DefaultSL /\ rb_rr = DefaultRR
  /\ rb_summary = [n_trades |-> 0]

-----------------------------------------------------------------------------
(* compute_indicators on a series and on each of its prefixes *)

InitCI ==
  /\ ci_pc = "full"
  /\ ci_call \in [series : CloseSeqs, ema_fast : {EmaFastDefault},
                  ema_slow : {EmaSlowDefault}, rsi_period : 1..MaxPeriod]
  /\ ci_full = <<>>
  /\ ci_i = 0
  /\ ci_rows = <<>>
  /\ bars = <<>>
  /\ IdleFS /\ IdleRB /\ IdleDS /\ IdleBS /\ IdleDP /\ IdleNP /\ IdleFO

\* compute_indicators on the full series.
CI_Full ==
  /\ ci_pc = "full"
  /\ ci_full' = compute_indicators(ci_call.series, ci_call.ema_fast, ci_call.ema_slow,
                                   ci_call.rsi_period).rows
  /\ ci_pc' = "walk"
  /\ UNCHANGED <<bars, ci_call, ci_i, ci_rows, fsVars, rbVars, dsVars, bsVars, dpVars, npVars, foVars>>

\* compute_indicators on the prefix [0..i]; its last row is kept.
CI_Prefix ==
  /\ ci_pc = "walk"
  /\ ci_i < Len(ci_call.series)
  /\ LET out == compute_indicators(Slice(ci_call.series, ci_i), ci_call.ema_fast,
                                   ci_call.ema_slow, ci_call.rsi_period).rows
     IN ci_rows' = Append(ci_rows, out[Len(out)])
  /\ ci_i' = ci_i + 1
  /\ UNCHANGED <<bars, ci_pc, ci_call, ci_full, fsVars, rbVars, dsVars, bsVars, dpVars, npVars, foVars>>

NextCI == CI_Full \/ CI_Prefix

SpecCI == InitCI /\ [][NextCI]_vars

\* C20: indicator causality. For every index i, the fast average, the slow
\* average and the oscillator at i computed from the full series equal
\* those at i computed from the prefix [0..i] alone.
C20_IndicatorCausality ==
  ci_pc = "walk" =>
    \A n \in 1..Len(ci_rows) :
      /\ FEq(ci_full[n].ema_fast, ci_rows[n].ema_fast)
      /\ FEq(ci_full[n].ema_slow, ci_rows[n].ema_slow)
      /\ FEq(ci_full[n].rsi, ci_rows[n].rsi)

\* C25: oscillator with no losses. At every index past the warm-up where
\* the smoothed loss is 0 the oscillator is 100, a series whose price never
\* changes included.
C25_NoLossIsHundred ==
  ci_pc = "walk" =>
    \A n \in 1..Len(ci_full) :
      (MinPeriodsMet(ci_call.rsi_period, n)
         /\ RollAt(ci_call.series, ci_call.rsi_period, FALSE, n)[1] = 0) =>
        FEq(ci_full[n].rsi, Frac(100, 1))

\* C26: oscillator range. Every value of the oscillator lies in [0, 100].
C26_OscillatorRange ==
  ci_pc = "walk" =>
    \A n \in 1..Len(ci_full) :
      /\ ci_full[n].rsi[2] > 0
      /\ ci_full[n].rsi[1] >= 0
      /\ ci_full[n].rsi[1] <= 100 * ci_full[n].rsi[2]

C26_Witness ==
  /\ ci_pc = "walk"
  /\ Len(ci_full) >= 3
  /\ ci_call.rsi_period = 2
  /\ ci_full[3].rsi[1] > 0
  /\ ci_full[3].rsi[1] < 100 * ci_full[3].rsi[2]

C20_Witness ==
  /\ ci_pc = "walk"
  /\ ci_i = Len(ci_call.series) /\ ci_i >= 3
  /\ ci_call.rsi_period = 1
  /\ ~FEq(ci_rows[2].ema_fast, ci_rows[3].ema_fast)
  /\ ~FEq(ci_rows[2].rsi, ci_rows[3].rsi)
  /\ ci_rows[2].rsi[1] > 0

-----------------------------------------------------------------------------
(* detect_signal called three times in a row *)

\* The tables and arguments of the calls: a one-row table or an empty one.
DpTables ==
  {[columns |-> {"timestamp", "close", "rsi"},
    rows |-> <<[timestamp |-> 1, close |-> p, price |-> p, rsi |-> Frac(v, 1)]>>] :
     p \in Prices, v \in {0, MidThreshold, RsiMax}}
  \cup {[columns |-> {"timestamp", "close", "rsi"}, rows |-> <<>>]}

DpCalls ==
  [df : DpTables, symbol : {"BTCUSDT"}, debounce_minutes : {0, 15},
   fixed_rr : FixedRrArgs, sl_pct : {NoArg, Frac(1, 50)}]

\* Two calls whose inputs are identical but, possibly, for debounce_minutes.
SameButDebounce(a, b) == [a EXCEPT !.debounce_minutes = 0] = [b EXCEPT !.debounce_minutes = 0]

\* The first and the third call differ at most in debounce_minutes; any call
\* lies in between. The signal store starts empty.
InitDP ==
  /\ dp_calls \in {c \in [1..3 -> DpCalls] :
                     SameButDebounce(c[1], c[3]) /\ c[2].debounce_minutes = 0}
  /\ dp_results = <<>>
  /\ dp_store = <<>>
  /\ bars = <<>>
  /\ IdleFS /\ IdleRB /\ IdleDS /\ IdleBS /\ IdleCI /\ IdleNP /\ IdleFO

\* The next call. detect_signal reads its arguments only and writes nothing:
\* the function body uses neither Storage nor a module-level variable.
DP_Call ==
  /\ Len(dp_results) < Len(dp_calls)
  /\ LET c == dp_calls[Len(dp_results) + 1]
     IN dp_results' = Append(dp_results,
          detect_signal(c.df, c.symbol, c.debounce_minutes, c.fixed_rr, c.sl_pct,
                        RSI_LOW, RSI_HIGH))
  /\ UNCHANGED <<bars, dp_calls, dp_store, fsVars, rbVars, dsVars, bsVars, ciVars,
                 npVars, foVars>>

NextDP == DP_Call

SpecDP == InitDP /\ [][NextDP]_vars

\* C21: detect_signal is pure. Two calls whose inputs are identical, or
\* differ in debounce_minutes only, return identical results whatever call
\* was made in between, and no call changes the signal store.
C21_DetectSignalPure ==
  /\ dp_store = <<>>
  /\ \A a, b \in 1..Len(dp_results) :
       SameButDebounce(dp_calls[a], dp_calls[b]) => dp_results[a] = dp_results[b]

C21_Witness ==
  /\ Len(dp_results) = 3
  /\ dp_calls[1].debounce_minutes # dp_calls[3].debounce_minutes
  /\ dp_results[1] # NoSignal
  /\ dp_results[2] # NoSignal
  /\ dp_results[2][1].side # dp_results[1][1].side
  /\ dp_results[3] = dp_results[1]

-----------------------------------------------------------------------------
(* scripts/backtest.py: naive_pnl_from_signals *)

MaxNpRows == 3
MaxNpTime == 2

\* The symbols of the table, in the order groupby iterates its keys.
NpSymbols == <<"BTCUSDT", "ETHUSDT">>
NpSymbolSet == {NpSymbols[i] : i \in 1..Len(NpSymbols)}
NpSignals == {"BUY", "SELL", "NONE"}
NpPrices == {0, 1}
NpRow == [timestamp : 1..MaxNpTime, symbol : NpSymbolSet, signal : NpSignals,
          price : NpPrices]

\* Line 43: the rows of a symbol that pass the filter signal in (BUY, SELL),
\* by their position in sig_df.
GroupRows(sig, symbol) ==
  {i \in 1..Len(sig) : sig[i].symbol = symbol /\ sig[i].signal \in {"BUY", "SELL"}}

\* Line 45: g.sort_values("timestamp"). The default sort is not stable, so
\* rows with equal timestamps come in any order.
SortValues(sig, idx) ==
  {[a \in 1..Cardinality(idx) |-> sig[p[a]]] :
     p \in {q \in [1..Cardinality(idx) -> idx] :
              /\ \A a, b \in 1..Cardinality(idx) : a # b => q[a] # q[b]
              /\ \A a, b \in 1..Cardinality(idx) :
                   a < b => sig[q[a]].timestamp <= sig[q[b]].timestamp}}

\* Lines 48-50: a BUY row.
OnBuyReopens(pos, r) == <<[entry_price |-> r.price, entry_ts |-> r.timestamp]>>

OnBuy(pos, r) ==
  IF pos = <<>> THEN <<[entry_price |-> r.price, entry_ts |-> r.timestamp]>>
  ELSE pos

\* Line 55: the return of a closed position, None (<<>>) without a positive
\* entry price.
NaiveReturn(entry_price, exit_price) ==
  IF entry_price # 0 /\ entry_price > 0
  THEN <<FSub(FDiv(Frac(exit_price, 1), Frac(entry_price, 1)), Frac(1, 1))>>
  ELSE <<>>

\* Lines 53-63: the row appended on a SELL while a position is open.
ClosedTrade(symbol, pos, r) ==
  [symbol |-> symbol,
   entry_ts |-> pos[1].entry_ts,
   exit_ts |-> r.timestamp,
   entry_price |-> pos[1].entry_price,
   exit_price |-> r.price,
   return |-> NaiveReturn(pos[1].entry_price, r.price)]

\* Lines 42-43: the table is filtered and grouped.
InitNP ==
  /\ np_sig \in UNION {[1..n -> NpRow] : n \in 0..MaxNpRows}
  /\ np_pc = "group"
  /\ np_todo = SelectSeq(NpSymbols, LAMBDA sy : GroupRows(np_sig, sy) # {})
  /\ np_symbol = ""
  /\ np_g = [sy \in NpSymbolSet |-> <<>>]
  /\ np_k = 0
  /\ np_pos = <<>>
  /\ np_rows = <<>>
  /\ bars = <<>>
  /\ IdleFS /\ IdleRB /\ IdleDS /\ IdleBS /\ IdleCI /\ IdleDP /\ IdleFO

\* Lines 44-46: the next group is sorted and iterated from a flat position.
NP_Group ==
  /\ np_pc = "group"
  /\ np_todo # <<>>
  /\ np_symbol' = Head(np_todo)
  /\ np_todo' = Tail(np_todo)
  /\ \E g \in SortValues(np_sig, GroupRows(np_sig, Head(np_todo))) :
       np_g' = [np_g EXCEPT ![Head(np_todo)] = g]
  /\ np_pos' = <<>>
  /\ np_k' = 1
  /\ np_pc' = "iter"
  /\ UNCHANGED <<bars, np_sig, np_rows, fsVars, rbVars, dsVars, bsVars, ciVars, dpVars,
                 foVars>>

\* Lines 47-50: the row is a BUY.
NP_Buy ==
  /\ np_pc = "iter"
  /\ np_k <= Len(np_g[np_symbol])
  /\ np_g[np_symbol][np_k].signal = "BUY"
  /\ np_pos' = OnBuy(np_pos, np_g[np_symbol][np_k])
  /\ np_k' = np_k + 1
  /\ UNCHANGED <<bars, np_sig, np_pc, np_todo, np_symbol, np_g, np_rows, fsVars, rbVars,
                 dsVars, bsVars, ciVars, dpVars, foVars>>

\* Lines 51-64: the row is a SELL.
NP_Sell ==
  /\ np_pc = "iter"
  /\ np_k <= Len(np_g[np_symbol])
  /\ np_g[np_symbol][np_k].signal = "SELL"
  /\ IF np_pos # <<>>
     THEN /\ np_rows' = Append(np_rows,
                               ClosedTrade(np_symbol, np_pos, np_g[np_symbol][np_k]))
          /\ np_pos' = <<>>
     ELSE UNCHANGED <<np_rows, np_pos>>
  /\ np_k' = np_k + 1
  /\ UNCHANGED <<bars, np_sig, np_pc, np_todo, np_symbol, np_g, fsVars, rbVars, dsVars,
                 bsVars, ciVars, dpVars, foVars>>

\* Line 65: the group is exhausted; a position still open is dropped.
NP_GroupEnd ==
  /\ np_pc = "iter"
  /\ np_k > Len(np_g[np_symbol])
  /\ np_pc' = "group"
  /\ UNCHANGED <<bars, np_sig, np_todo, np_symbol, np_g, np_k, np_pos, np_rows, fsVars,
                 rbVars, dsVars, bsVars, ciVars, dpVars, foVars>>

\* Line 66: no group is left.
NP_Return ==
  /\ np_pc = "group"
  /\ np_todo = <<>>
  /\ np_pc' = "done"
  /\ UNCHANGED <<bars, np_sig, np_todo, np_symbol, np_g, np_k, np_pos, np_rows, fsVars,
                 rbVars, dsVars, bsVars, ciVars, dpVars, foVars>>

NextNP == NP_Group \/ NP_Buy \/ NP_Sell \/ NP_GroupEnd \/ NP_Return

SpecNP == InitNP /\ [][NextNP]_vars

\* The signals of a symbol consumed so far, out of its sorted group.
Consumed(sy) ==
  IF \E i \in 1..Len(np_todo) : np_todo[i] = sy THEN 0
  ELSE IF np_pc = "iter" /\ np_symbol = sy THEN np_k - 1
  ELSE Len(np_g[sy])

\* The SELL rows among the first n of g that directly follow a BUY row: the
\* sells that meet an open position.
ClosingSells(g, n) == {j \in 2..n : g[j].signal = "SELL" /\ g[j - 1].signal = "BUY"}

\* The first row of the run of BUY rows that ends at row j.
RunStart(g, j) ==
  CHOOSE i \in 1..j :
    /\ \A m \in i..j : g[m].signal = "BUY"
    /\ i = 1 \/ g[i - 1].signal # "BUY"

TradesOf(sy) == SelectSeq(np_rows, LAMBDA t : t.symbol = sy)

CountSignal(sy, signal) ==
  Cardinality({i \in 1..Len(np_sig) : np_sig[i].symbol = sy /\ np_sig[i].signal = signal})

\* C31: naive_pnl_from_signals is a long-only single-slot machine per symbol
\* over the signals in time order. The position is open exactly after a BUY
\* and holds the first BUY of the run (a BUY while long is ignored); the
\* trades of a symbol are, in order, exactly the SELL rows that follow a BUY
\* (a SELL while flat is ignored, a position open at the end records
\* nothing), each from the first BUY of its run. Hence trades of a symbol
\* never overlap, each has entry_ts <= exit_ts, and a symbol has at most
\* min(#BUY, #SELL) trades.
C31_LongOnlySingleSlot ==
  np_pc # "idle" =>
    \A sy \in NpSymbolSet :
      LET g == np_g[sy]
          n == Consumed(sy)
          t == TradesOf(sy)
          c == ClosingSells(g, n)
      IN /\ Len(t) = Cardinality(c)
         /\ \A m \in 1..Len(t) :
              LET j == CHOOSE x \in c : Cardinality({y \in c : y <= x}) = m
                  b == g[RunStart(g, j - 1)]
              IN /\ t[m] = ClosedTrade(sy, <<[entry_price |-> b.price,
                                                  entry_ts |-> b.timestamp]>>, g[j])
                 /\ t[m].entry_ts <= t[m].exit_ts
                 /\ m > 1 => t[m - 1].exit_ts <= t[m].entry_ts
         /\ Len(t) <= CountSignal(sy, "BUY")
         /\ Len(t) <= CountSignal(sy, "SELL")
         /\ (np_pc = "iter" /\ np_symbol = sy) =>
              /\ np_pos # <<>> <=> (n >= 1 /\ g[n].signal = "BUY")
              /\ np_pos # <<>> =>
                   np_pos[1] = [entry_price |-> g[RunStart(g, n)].price,
                                entry_ts |-> g[RunStart(g, n)].timestamp]

\* A finished run in which a symbol had a BUY while flat, a BUY while long,
\* then a SELL that closed the position.
C31_Witness ==
  /\ np_pc = "done"
  /\ Len(np_rows) = 1
  /\ np_rows[1].symbol = "BTCUSDT"
  /\ CountSignal("BTCUSDT", "BUY") = 2
  /\ CountSignal("BTCUSDT", "SELL") = 1
  /\ np_rows[1].entry_ts < np_rows[1].exit_ts

-----------------------------------------------------------------------------
(* src/utils/historical.py: fetch_full_ohlcv. A row is modelled by its      *)
(* timestamp; the exchange answers fetch_ohlcv(since, limit) with its      *)
(* earliest bars at or after since, oldest first, at most limit of them,   *)
(* or raises.                                                              *)

MaxTime == 4
MaxLimit == 2
MaxErrors == 1

\* The members of a set of timestamps, oldest first.
Ascending(S) ==
  CHOOSE q \in [1..Cardinality(S) -> S] :
    \A a, b \in 1..Cardinality(S) : a < b => q[a] < q[b]

\* exchange.fetch_ohlcv(symbol, timeframe, since, limit) when it succeeds.
FetchOhlcv(market, since, limit) ==
  LET avail == Ascending({t \in market : t >= since})
  IN IF Len(avail) <= limit THEN avail ELSE SubSeq(avail, 1, limit)

\* Line 76: the cursor of the next page.
NextCursorAtNewest(newest) == newest

NextCursor(newest) == newest + 1

\* Lines 87-96: the table built from all_rows, duplicates dropped and sorted
\* by timestamp.
SortedTable(all_rows) == Ascending({all_rows[i] : i \in 1..Len(all_rows)})

\* Lines 34-43: the state on entry to the loop.
InitFO ==
  /\ fo_market \in SUBSET (1..MaxTime)
  /\ fo_limit \in 1..MaxLimit
  /\ fo_now \in 1..MaxTime
  /\ fo_since \in 0..MaxTime
  /\ fo_pc = "loop"
  /\ fo_rows = <<>>
  /\ fo_errors = 0
  /\ fo_df = <<>>
  /\ bars = <<>>
  /\ IdleFS /\ IdleRB /\ IdleDS /\ IdleBS /\ IdleCI /\ IdleDP /\ IdleNP

\* Lines 48-58: the fetch raises; the loop goes round with nothing changed
\* but the line printed.
FO_Error ==
  /\ fo_pc = "loop"
  /\ fo_errors < MaxErrors
  /\ fo_errors' = fo_errors + 1
  /\ UNCHANGED <<bars, fo_market, fo_limit, fo_now, fo_pc, fo_since, fo_rows, fo_df,
                 fsVars, rbVars, dsVars, bsVars, ciVars, dpVars, npVars>>

\* Lines 60-62 and 86-99: the page is empty; the table is built and returned.
FO_NoMoreData ==
  /\ fo_pc = "loop"
  /\ FetchOhlcv(fo_market, fo_since, fo_limit) = <<>>
  /\ fo_pc' = "done"
  /\ fo_df' = SortedTable(fo_rows)
  /\ UNCHANGED <<bars, fo_market, fo_limit, fo_now, fo_since, fo_rows, fo_errors,
                 fsVars, rbVars, dsVars, bsVars, ciVars, dpVars, npVars>>

\* Lines 64-84 (and 86-99 on the break): a page of bars is collected and the
\* cursor moves past its newest bar; the loop ends when the cursor has
\* reached now_ms.
FO_Page ==
  /\ fo_pc = "loop"
  /\ LET ohlcv == FetchOhlcv(fo_market, fo_since, fo_limit) IN
     /\ ohlcv # <<>>
     /\ fo_rows' = fo_rows \o ohlcv
     /\ fo_since' = NextCursor(ohlcv[Len(ohlcv)])
     /\ IF fo_since' >= fo_now
        THEN fo_pc' = "done" /\ fo_df' = SortedTable(fo_rows')
        ELSE UNCHANGED <<fo_pc, fo_df>>
  /\ UNCHANGED <<bars, fo_market, fo_limit, fo_now, fo_errors,
                 fsVars, rbVars, dsVars, bsVars, ciVars, dpVars, npVars>>

NextFO == FO_Error \/ FO_NoMoreData \/ FO_Page

SpecFO == InitFO /\ [][NextFO]_vars

\* Every fetch eventually succeeds: a fetch that can succeed is not put off
\* for ever.
SpecFOLive == SpecFO /\ WF_vars(FO_NoMoreData \/ FO_Page)

StrictlyIncreasing(q) == \A a, b \in 1..Len(q) : a < b => q[a] < q[b]

\* One step of the loop, as the paging rule states it.
PagingStep ==
  fo_pc = "loop" =>
    /\ fo_rows' # fo_rows => fo_since' > fo_since
    /\ fo_errors' # fo_errors =>
         (fo_since' = fo_since /\ fo_rows' = fo_rows /\ fo_pc' = "loop")
    /\ fo_pc' = "done" <=>
         /\ fo_errors' = fo_errors
         /\ \/ FetchOhlcv(fo_market, fo_since, fo_limit) = <<>>
            \/ fo_since' >= fo_now

\* C32: fetch_full_ohlcv paging. The cursor fetch_since strictly increases
\* after every successful non-empty page; a failed fetch is retried with the
\* same cursor and the same collected rows; the loop ends exactly when a page
\* is empty or the cursor has reached now_ms; when every fetch eventually
\* succeeds the download terminates; and the bars returned have strictly
\* increasing (so duplicate-free) timestamps, those of the rows collected.
C32_Paging ==
  /\ [][PagingStep]_vars
  /\ [](fo_pc = "done" =>
          /\ StrictlyIncreasing(fo_df)
          /\ {fo_df[i] : i \in 1..Len(fo_df)} = {fo_rows[i] : i \in 1..Len(fo_rows)})
  /\ <>(fo_pc = "done")

\* A download over, after a failed fetch, in more than one page.
C32_Witness ==
  /\ fo_pc = "done"
  /\ fo_errors > 0
  /\ Len(fo_rows) > fo_limit
  /\ Len(fo_df) = Len(fo_rows)
  /\ fo_since >= fo_now

====
